---- MODULE Spec2Model ----
(***************************************************************************)
(* Model of src/api/run_simulation.py: the 4-node (canopy, trunk, snow,    *)
(* soil) Monte-Carlo energy-balance backend.                               *)
(*                                                                         *)
(* Floating point is modelled in fixed point on the integers:              *)
(*   temperatures            mK        (273.15 K = 273150)                 *)
(*   fluxes                  mW m-2                                        *)
(*   area fractions, albedo, emissivity, RH and other fractions  1e-4      *)
(*   conductivities          mW m-1 K-1                                    *)
(*   lengths                 mm                                            *)
(*   convective coefficients mW m-2 K-1                                    *)
(*   wind speed              mm s-1                                        *)
(*   mass fluxes             1e-9 kg m-2 s-1;  latent heats kJ kg-1        *)
(*   residuals (res.fun)     1e-3 (so an inactive node's residual, a raw   *)
(*                           temperature difference, is its mK difference) *)
(***************************************************************************)
EXTENDS Integers, Sequences, FiniteSets, TLC

VARIABLES
    pc,         \* position: idle / loop / solve / qc / raise / respond / done / answered
    caller,     \* "direct" (run_monte_carlo called) or "handler" (handle_run_simulation)
    args,       \* the arguments of the running run_monte_carlo call
    rng,        \* state of the generator built by default_rng(seed)
    i,          \* attempts started so far (the for-loop index)
    par,        \* p: scenario of the current attempt
    guess,      \* initial guess of the current attempt
    res,        \* result of least_squares for the current attempt
    sols_list,  \* accepted states
    pars_list,  \* accepted scenarios
    nsolve,     \* least_squares calls made by the running call
    trace,      \* per attempt: its scenario, its solve result, whether accepted
    result,     \* what the call returned or raised
    prev,       \* result of the previous call with the same arguments
    lsq_memo,   \* input/output pairs the (deterministic) solver has shown so far
    response,   \* the handler's response
    fin,        \* input of the pure function under evaluation
    fout        \* its output

vars == <<pc, caller, args, rng, i, par, guess, res, sols_list, pars_list, nsolve,
          trace, result, prev, lsq_memo, response, fin, fout>>

\* Python's None, where a number may stand
None == -1

\* ------------------------------------------------------------------ bounds
MaxRuns == 2
MaxSeed == 1
MaxDicts == 3

\* --------------------------------------------------------------- constants
SIGMA == 5670
NDIM_FLUX == 100
T_LO == 200000
T_HI == 340000
EPS == 1
KAPPA == 4100
PSYCHROMETRIC_GAMMA == 660

\* ------------------------------------------------------ fixed-point helpers
Abs(x) == IF x < 0 THEN -x ELSE x
Max(a, b) == IF a >= b THEN a ELSE b
Min(a, b) == IF a <= b THEN a ELSE b

\* float division a / b, rounded toward zero
Quot(a, b) ==
    IF b < 0 THEN (IF a >= 0 THEN -(a \div (-b)) ELSE (-a) \div (-b))
    ELSE IF a >= 0 THEN a \div b ELSE -((-a) \div b)

\* float product x * y of a value x and a value y held at scale d: floor(x*y/d)
MulDiv(x, y, d) ==
    (x \div d) * y + (x % d) * (y \div d) + ((x % d) * (y % d)) \div d

\* np.exp on 1e-4 fixed point (argument and result)
Sq(t) == MulDiv(t, t, 10000)
\* 1 + y + y^2/2 + y^3/6 + y^4/24, by Horner
ExpSeries(y) ==
    10000 + MulDiv(10000 + MulDiv(10000 + MulDiv(10000 + Quot(y, 4), Quot(y, 3), 10000),
                                  Quot(y, 2), 10000), y, 10000)
ExpFx(x) == Sq(Sq(Sq(Sq(ExpSeries(Quot(x, 16))))))

\* 2 * (z + z^3/3 + z^5/5 + z^7/7)
AtanhSeries(z) ==
    2 * (z + MulDiv(z, MulDiv(Sq(z), 3333 + MulDiv(Sq(z), 2000 + Quot(Sq(z), 7), 10000),
                              10000), 10000))

\* np.log on 1e-4 fixed point, x > 0
RECURSIVE LnFx(_)
LnFx(x) ==
    IF x >= 20000 THEN 6931 + LnFx(x \div 2)
    ELSE IF x < 10000 THEN IF x <= 0 THEN 0 ELSE LnFx(2 * x) - 6931
    ELSE AtanhSeries(Quot((x - 10000) * 10000, x + 10000))

\* integer square root
RECURSIVE IsqrtFrom(_, _)
IsqrtFrom(n, g) ==
    LET h == (g + n \div g) \div 2
    IN  IF h >= g THEN g ELSE IsqrtFrom(n, h)

\* np.sqrt on 1e-4 fixed point, 0 <= x
SqrtFx(x) == IF x <= 0 THEN 0 ELSE IsqrtFrom(x * 10000, x * 10000)

\* np.tanh on 1e-4 fixed point
TanhOfExp(e) == Quot((10000 - e) * 10000, 10000 + e)
TanhFx(x) ==
    IF x >= 0 THEN TanhOfExp(ExpFx(-2 * Min(x, 60000)))
    ELSE -TanhOfExp(ExpFx(-2 * Min(-x, 60000)))

\* ------------------------------------------------------------ the generator
\* numpy's Generator: a deterministic stream; the state is a residue and a
\* draw advances it.  default_rng(seed) derives the state from the seed.
seed_state(seed) == (3 * seed + 1) % 8
Adv(s) == (5 * s + 3) % 8

\* rng.uniform(lo, hi) read off the state s the draw has advanced to:
\* lo + (hi - lo) * u with u = s/8 in [0, 1)
uniform(lo, hi, s) == lo + ((hi - lo) * s) \div 8

\* ----------------------------------------------------------- input strings
Seasons == {"summer", "Summer", "winter"}
ForestTypes == {"coniferous", "Deciduous", "none", "tropical"}

\* str.lower on the strings of the model
lower(str) ==
    CASE str = "Summer" -> "summer"
      [] str = "Deciduous" -> "deciduous"
      [] OTHER -> str

\* --------------------------------------------------- thermodynamic helpers
\* saturation vapour pressure, kPa at 1e-4
esat_kPa(T) ==
    LET Tc == T - 273150
    IN  MulDiv(6108, ExpFx(Quot(1727 * Tc, (Tc + 237300) \div 100)), 10000)

\* slope of the saturation curve, kPa/K at 1e-4
delta_svp_kPa_per_K(T) ==
    LET b == (T - 273150 + 237300) \div 100
    IN  Quot(4098 * esat_kPa(T), (b * b) \div 100)

\* aerodynamic resistance -> h; u mm/s, z_ref and z0 mm, h in mW m-2 K-1
h_aero(u, z_ref, z0) ==
    Quot(1225 * 1005 * 1000,
         Max(Quot(Sq(LnFx(Quot(z_ref * 10000, z0))) * 1000,
                  MulDiv(Sq(KAPPA), Max(u, 100), 1000)), 1))

eff_emissivity(ei, ej) ==
    Quot(100000000, Quot(100000000, Max(ei, EPS)) + Quot(100000000, Max(ej, EPS)) - 10000)

\* SIGMA * T^4 in mW m-2 for T in mK
lwT4(T) == MulDiv(Sq(((T \div 10) * (T \div 10)) \div 10000), SIGMA, 10000)

lw_pair(ei, A, Ti, ej, Tj) ==
    IF A <= 0 THEN 0
    ELSE MulDiv(MulDiv(lwT4(Ti) - lwT4(Tj), eff_emissivity(ei, ej), 10000), A, 10000)

\* ------------------------------------------------------- parameter sampler
\* The sampler is a chain of stages.  A stage takes the record r of what is
\* set so far (r.rng is the generator state) and returns it with the fields
\* it sets.  season and forest_type are already lower-cased.

\* the generator state n draws after state s
RECURSIVE AdvN(_, _)
AdvN(s, n) == IF n = 0 THEN s ELSE AdvN(Adv(s), n - 1)

\* the n-th rng.uniform(lo, hi) after state s
draw(lo, hi, s, n) == uniform(lo, hi, AdvN(s, n))

\* 1 when the conditional draw is made
B(c) == IF c THEN 1 ELSE 0

\* line 77
freeze_mult(T) == IF T < 273150 THEN 16000 ELSE 10000

\* lines 97-99
stability_factor(season, u) ==
    IF season # "winter" \/ u >= 1000 THEN 10000 ELSE 3000 + 7 * u

\* lines 81-89: air, sun and soil
SP_climate(season, forest_type, s0) ==
    [season |-> season,
     forest_type |-> forest_type,
     T_atm |-> IF season = "summer" THEN draw(293000, 303000, s0, 1)
               ELSE draw(258000, 273000, s0, 1),
     Q_solar |-> IF season = "summer" THEN draw(400000, 800000, s0, 2)
                 ELSE draw(50000, 200000, s0, 2),
     T_deep |-> IF season = "summer"
                THEN draw(293000, 303000, s0, 1) + draw(-4000, -2000, s0, 3)
                ELSE draw(268000, 274000, s0, 3),
     k_soil |-> IF season = "summer" THEN draw(500, 1500, s0, 4)
                ELSE draw(800, 1300, s0, 4),
     d_soil |-> IF season = "summer" THEN draw(1500, 3000, s0, 5)
                ELSE draw(2000, 4000, s0, 5),
     rng |-> AdvN(s0, 5)]

\* line 92
VPD_of(RH, T_atm) == MulDiv(10000 - RH, esat_kPa(T_atm), 10000)
\* line 93
f_vpd_of(VPD) == Max(0, 10000 - SqrtFx(Quot(VPD, 3)))

\* lines 91-103: humidity, soil moisture, wind
SP_air(r) ==
    LET RH == IF r.season = "summer" THEN draw(6000, 10000, r.rng, 1)
              ELSE draw(7000, 10000, r.rng, 1)
        u == draw(500, IF r.forest_type = "none" THEN 2000 ELSE 3000, r.rng, 3)
    IN  [RH |-> RH,
         VPD |-> VPD_of(RH, r.T_atm),
         f_vpd |-> f_vpd_of(VPD_of(RH, r.T_atm)),
         theta_rel |-> draw(4000, 10000, r.rng, 2),
         u |-> u,
         stab |-> stability_factor(r.season, u),
         dT_target |-> draw(1000, 7000, r.rng, 4),
         rng |-> AdvN(r.rng, 4)] @@ r

\* variant of SP_forest: a name it does not know is taken as bare ground
SP_forest_defaulting(r) ==
    IF r.forest_type \in {"coniferous", "deciduous"}
    THEN [ok |-> TRUE,
          alpha_can |-> draw(500, 1000, r.rng, 1),
          A_can |-> draw(4000, 7000, r.rng, 2),
          LAI |-> draw(3000, 5000, r.rng, 3),
          k_ct |-> MulDiv(draw(120, 250, r.rng, 4), freeze_mult(r.T_atm), 10000),
          rng |-> AdvN(r.rng, 4)] @@ r
    ELSE [ok |-> TRUE, alpha_can |-> 0, A_can |-> 0, LAI |-> 0, k_ct |-> 0] @@ r

\* lines 105-122: canopy properties by forest type; ok = FALSE is the
\* ValueError of line 122
SP_forest(r) ==
    IF r.forest_type = "coniferous" THEN
        [ok |-> TRUE,
         alpha_can |-> draw(500, 1000, r.rng, 1),
         A_can |-> IF r.season = "summer" THEN draw(5000, 8000, r.rng, 2)
                   ELSE draw(4000, 7000, r.rng, 2),
         LAI |-> draw(3000, 5000, r.rng, 3),
         k_ct |-> MulDiv(draw(120, 250, r.rng, 4), freeze_mult(r.T_atm), 10000),
         rng |-> AdvN(r.rng, 4)] @@ r
    ELSE IF r.forest_type = "deciduous" THEN
        [ok |-> TRUE,
         alpha_can |-> draw(1500, 2000, r.rng, 1),
         A_can |-> IF r.season = "summer" THEN draw(6000, 9000, r.rng, 2)
                   ELSE draw(1000, 2000, r.rng, 2),
         LAI |-> IF r.season = "summer" THEN draw(4000, 6000, r.rng, 3)
                 ELSE draw(300, 700, r.rng, 3),
         k_ct |-> MulDiv(draw(80, 180, r.rng, 4), freeze_mult(r.T_atm), 10000),
         rng |-> AdvN(r.rng, 4)] @@ r
    ELSE IF r.forest_type = "none" THEN
        [ok |-> TRUE, alpha_can |-> 0, A_can |-> 0, LAI |-> 0, k_ct |-> 0] @@ r
    ELSE
        [ok |-> FALSE] @@ r

\* lines 124-126: trunk areas and the trunk conductances
SP_trunk(r) ==
    [A_trunk_plan |-> IF r.forest_type # "none" THEN draw(100, 500, r.rng, 1) ELSE 0,
     A_trunk_vert |-> IF r.forest_type # "none"
                      THEN MulDiv(draw(10000, 30000, r.rng, 2),
                                  draw(100, 500, r.rng, 1), 10000)
                      ELSE 0,
     k_ts |-> MulDiv(8000, r.k_ct, 10000),
     k_tsn |-> MulDiv(2000, r.k_ct, 10000),
     rng |-> AdvN(r.rng, 2 * B(r.forest_type # "none"))] @@ r

\* lines 128-131: snow-cover fraction of the ground
SP_snow_frac(r) ==
    IF r.season = "summer" THEN
        IF r.T_atm > 278000 THEN [snow_frac |-> 0] @@ r
        ELSE [snow_frac |-> draw(0, 500, r.rng, 1), rng |-> Adv(r.rng)] @@ r
    ELSE [snow_frac |-> draw(6000, 10000, r.rng, 1), rng |-> Adv(r.rng)] @@ r

\* line 132
A_snow_of(A_trunk_plan, snow_frac) == MulDiv(10000 - A_trunk_plan, snow_frac, 10000)

\* variant of A_soil_of: the trunk's footprint is not taken off
A_soil_beside_snow(A_trunk_plan, A_snow) == 10000 - A_snow

\* line 133: soil is what the trunk and the snow leave
A_soil_of(A_trunk_plan, A_snow) == 10000 - A_trunk_plan - A_snow

\* line 134: snow below 1e-3 is no snow
A_snow_threshold(A_snow) == IF A_snow < 10 THEN 0 ELSE A_snow

\* lines 132-134
SP_ground(r) ==
    [A_soil |-> A_soil_of(r.A_trunk_plan, A_snow_of(r.A_trunk_plan, r.snow_frac)),
     A_snow |-> A_snow_threshold(A_snow_of(r.A_trunk_plan, r.snow_frac))] @@ r

\* line 136
SP_height(r) ==
    [H_canopy |-> IF r.A_can > 0 THEN draw(10000, 20000, r.rng, 1) ELSE 0,
     rng |-> AdvN(r.rng, B(r.A_can > 0))] @@ r

\* line 144
h_soil_of(u, stab) == Min(MulDiv(h_aero(u, 2000, 10), stab, 10000), 40000)

\* lines 137-145: the convective coefficients
SP_convective(r) ==
    [h_can |-> IF r.A_can # 0 /\ r.H_canopy > 0
               THEN Min(MulDiv(h_aero(r.u, r.H_canopy, MulDiv(1000, r.H_canopy, 10000)),
                               r.stab, 10000),
                        25000 + MulDiv(5000, r.theta_rel, 10000))
               ELSE 1000000000,
     h_trunk |-> IF r.A_trunk_vert # 0 THEN MulDiv(5000 + 4 * r.u, r.stab, 10000) ELSE 0,
     h_soil |-> h_soil_of(r.u, r.stab),
     h_snow |-> Quot(h_soil_of(r.u, r.stab), 2)] @@ r

\* lines 147-155: extinction, albedos, emissivities; a surface of zero area
\* draws nothing and gets 0
SP_optics(r) ==
    LET n_snow == 1 + B(r.A_snow # 0)
        n_trunk == n_snow + 1 + B(r.A_trunk_plan # 0)
        n_can == n_trunk + B(r.A_can # 0)
        n_esnow == n_can + B(r.A_snow # 0)
        n_etrunk == n_esnow + 1 + B(r.A_trunk_vert # 0)
    IN  [K_can |-> IF r.A_can # 0
                   THEN ExpFx(-MulDiv(draw(4000, 6000, r.rng, 1), r.LAI, 1000))
                   ELSE 0,
         alpha_snow |-> IF r.A_snow # 0 THEN draw(6000, 9000, r.rng, n_snow) ELSE 0,
         alpha_soil |-> draw(1000, 3000, r.rng, n_snow + 1),
         alpha_trunk |-> IF r.A_trunk_plan # 0 THEN draw(1500, 3500, r.rng, n_trunk) ELSE 0,
         eps_can |-> IF r.A_can # 0 THEN draw(9400, 10000, r.rng, n_can) ELSE 0,
         eps_snow |-> IF r.A_snow # 0 THEN draw(9500, 10000, r.rng, n_esnow) ELSE 0,
         eps_soil |-> draw(9000, 10000, r.rng, n_esnow + 1),
         eps_trunk |-> IF r.A_trunk_vert # 0 THEN draw(9000, 9800, r.rng, n_etrunk) ELSE 0,
         rng |-> AdvN(r.rng, n_etrunk)] @@ r

\* lines 157-165: snow depth, contact path lengths and contact areas
SP_contacts(r) ==
    LET snow == B(r.A_snow # 0)
        tp == B(r.A_trunk_plan # 0)
        ct == B(r.A_can # 0 /\ r.A_trunk_plan # 0)
        tsn == B(r.A_trunk_plan # 0 /\ r.A_snow # 0)
    IN  [Hsnow |-> IF snow = 1 THEN draw(50, 1000, r.rng, 1) ELSE 0,
         d_ct |-> IF ct = 1 THEN draw(50, 200, r.rng, snow + 1) ELSE 0,
         d_ts |-> IF tp = 1 THEN draw(50, 100, r.rng, snow + ct + 1) ELSE 0,
         d_tsn |-> IF tsn = 1 THEN draw(50, 100, r.rng, snow + ct + tp + 1) ELSE 0,
         d_s |-> IF snow = 1 THEN Max(draw(50, 1000, r.rng, 1), 50) ELSE 0,
         A_c2t |-> IF ct = 1 THEN draw(300, 1500, r.rng, snow + ct + tp + tsn + 1) ELSE 0,
         A_t2s |-> IF tp = 1 THEN draw(100, 500, r.rng, snow + 2 * ct + tp + tsn + 1) ELSE 0,
         A_t2sn |-> IF tsn = 1
                    THEN draw(100, 500, r.rng, snow + 2 * ct + 2 * tp + tsn + 1) ELSE 0,
         k_s |-> IF snow = 1
                 THEN draw(50, 800, r.rng, snow + 2 * ct + 2 * tp + 2 * tsn + 1) ELSE 0,
         rng |-> AdvN(r.rng, 2 * snow + 2 * ct + 2 * tp + 2 * tsn)] @@ r

\* line 169
fr_PT_of(Delta) == Quot(Delta * 10000, Delta + PSYCHROMETRIC_GAMMA)

\* lines 173-174: Priestley-Taylor mass flux for net radiation Rn
pt_mass(Rn_val, fr_PT, Lv) ==
    Quot(MulDiv(MulDiv(12600, fr_PT, 10000), Max(Rn_val, 0), 10000) * 1000, Lv)

\* lines 170-171, 182: the net-radiation proxies
Rn_can_of(r) ==
    IF r.A_can > 0
    THEN MulDiv(MulDiv(MulDiv(r.Q_solar, r.A_can, 10000), 10000 - r.alpha_can, 10000),
                10000 - r.K_can, 10000)
    ELSE 0
Rn_soil_of(r) == MulDiv(MulDiv(r.Q_solar, r.A_soil, 10000), 10000 - r.alpha_soil, 10000)
Rn_snow_proxy_of(r) ==
    IF r.A_snow > 0
    THEN MulDiv(MulDiv(r.Q_solar, r.A_snow, 10000), 10000 - r.alpha_snow, 10000)
    ELSE 0

\* lines 178-180: the winter reduction of a vapour flux
winter_scaled(season, m, factor) ==
    IF season = "winter" THEN MulDiv(m, factor, 10000) ELSE m

\* lines 167-169
SP_latent_consts(r) ==
    [Lv |-> 2500, Lf |-> 334, dH_photo |-> 28000,
     fr_PT |-> fr_PT_of(delta_svp_kPa_per_K(r.T_atm))] @@ r

\* lines 170-183: latent and phase-change mass fluxes
SP_latent(r) ==
    [dot_m_vap_can |->
        winter_scaled(r.season,
                      MulDiv(r.f_vpd, pt_mass(Rn_can_of(r), r.fr_PT, r.Lv), 10000), 4000),
     dot_m_vap_soil |->
        winter_scaled(r.season,
                      MulDiv(MulDiv(r.f_vpd, MulDiv(r.theta_rel, r.theta_rel, 10000), 10000),
                             pt_mass(Rn_soil_of(r), r.fr_PT, r.Lv), 10000), 2500),
     dot_m_photo |-> IF r.season = "summer" /\ r.A_can > 0
                     THEN MulDiv(draw(0, 3000, r.rng, 1), r.A_can, 10000)
                     ELSE 0,
     dot_m_melt |-> IF r.season = "winter" /\ r.A_snow # 0
                    THEN Quot(MulDiv(8000, Max(Rn_snow_proxy_of(r), 0), 10000) * 1000, r.Lf)
                    ELSE 0,
     rng |-> AdvN(r.rng, B(r.season = "summer" /\ r.A_can > 0))] @@ r

\* lines 185-200: the keys of the returned dict
ReturnedKeys ==
    {"Q_solar", "alpha_can", "alpha_snow", "alpha_soil", "alpha_trunk", "K_can",
     "eps_can", "eps_snow", "eps_soil", "eps_trunk",
     "A_can", "A_trunk_plan", "A_trunk_vert", "A_snow", "A_soil", "LAI",
     "h_can", "h_trunk", "h_snow", "h_soil",
     "k_ct", "k_ts", "k_tsn", "k_s", "k_soil",
     "d_ct", "d_ts", "d_tsn", "d_s", "d_soil",
     "A_c2t", "A_t2s", "A_t2sn",
     "Lv", "Lf", "dot_m_vap_can", "dot_m_vap_soil",
     "dot_m_photo", "dot_m_melt", "dH_photo",
     "RH", "VPD", "theta_rel",
     "T_atm", "T_deep", "season", "forest_type",
     "Hsnow", "u", "dT_target", "H_canopy"}

\* lines 124-200: what follows a recognised forest type
SP_rest(r) ==
    SP_latent(SP_latent_consts(SP_contacts(SP_optics(SP_convective(SP_height(
        SP_ground(SP_snow_frac(SP_trunk(r)))))))))

\* the outcome of the call: ok = FALSE is ValueError (nothing is returned),
\* rng is the generator state the call leaves behind
SP_outcome(r) ==
    IF r.ok THEN [ok |-> TRUE, p |-> [k \in ReturnedKeys |-> r[k]], rng |-> r.rng]
    ELSE [ok |-> FALSE, p |-> <<>>, rng |-> r.rng]

SP_finish(r) == IF r.ok THEN SP_outcome(SP_rest(r)) ELSE SP_outcome(r)

\* lines 71-200
sample_parameters(season_arg, forest_arg, s0) ==
    SP_finish(SP_forest(SP_air(SP_climate(lower(season_arg), lower(forest_arg), s0))))

\* --------------------------------------------------------------- area overlap
\* <<canopy over snow, canopy over soil, canopy over nothing>>
canopy_overlap(A_can, A_snow, A_soil) ==
    LET ground == A_snow + A_soil
        cap == Min(A_can, ground)
    IN  IF A_can = 0 \/ ground = 0 THEN <<0, 0, 0>>
        ELSE <<MulDiv(cap, Quot(A_snow * 10000, ground), 10000),
               MulDiv(cap, Quot(A_soil * 10000, ground), 10000),
               A_can - cap>>

\* -------------------------------------------------- energy-balance residuals
\* v = <<T_can, T_trunk, T_snow, T_soil>>; one operator per local of
\* energy_balance (lines 216-271).
EB_A_can_snow(p) == canopy_overlap(p.A_can, p.A_snow, p.A_soil)[1]
EB_A_can_soil(p) == canopy_overlap(p.A_can, p.A_snow, p.A_soil)[2]
EB_A_snow_sky(p) == p.A_snow - EB_A_can_snow(p)
EB_A_soil_sky(p) == p.A_soil - EB_A_can_soil(p)
EB_eps_atm(p) ==
    Min(9000, 8000 + MulDiv(2000, TanhFx(Quot((p.T_atm - 260000) * 10, 15)), 10000))
EB_LW_down(p) == MulDiv(lwT4(p.T_atm), EB_eps_atm(p), 10000)
EB_gap(p) == 10000 - Min(p.A_can, 10000)
EB_SW_trans(p) ==
    IF p.A_can # 0
    THEN MulDiv(MulDiv(MulDiv(p.Q_solar, p.A_can, 10000), 10000 - p.alpha_can, 10000),
                p.K_can, 10000)
    ELSE 0
EB_SW_can_abs(p) ==
    IF p.A_can # 0
    THEN MulDiv(MulDiv(MulDiv(p.Q_solar, p.A_can, 10000), 10000 - p.alpha_can, 10000),
                10000 - p.K_can, 10000)
    ELSE 0
EB_SW_trunk_dir(p) ==
    IF p.A_trunk_plan # 0
    THEN MulDiv(MulDiv(p.Q_solar, MulDiv(EB_gap(p), p.A_trunk_plan, 10000), 10000),
                10000 - p.alpha_trunk, 10000)
    ELSE 0
EB_SW_trunk_can(p) ==
    IF p.A_trunk_plan # 0
    THEN MulDiv(MulDiv(EB_SW_trans(p), p.A_trunk_plan, 10000), 10000 - p.alpha_trunk, 10000)
    ELSE 0
EB_SW_snow_dir(p) ==
    IF p.A_snow # 0
    THEN MulDiv(MulDiv(p.Q_solar, EB_A_snow_sky(p), 10000), 10000 - p.alpha_snow, 10000)
    ELSE 0
EB_SW_snow_can(p) ==
    IF p.A_snow # 0
    THEN MulDiv(MulDiv(EB_SW_trans(p), EB_A_can_snow(p), 10000), 10000 - p.alpha_snow, 10000)
    ELSE 0
EB_SW_soil_dir(p) ==
    MulDiv(MulDiv(p.Q_solar, EB_A_soil_sky(p), 10000), 10000 - p.alpha_soil, 10000)
EB_SW_soil_can(p) ==
    MulDiv(MulDiv(EB_SW_trans(p), EB_A_can_soil(p), 10000), 10000 - p.alpha_soil, 10000)
EB_F_can_snow(v, p) ==
    IF p.A_can # 0 /\ p.A_snow # 0
    THEN lw_pair(p.eps_can, MulDiv(EB_A_can_snow(p), ExpFx(-5 * p.LAI), 10000), v[1],
                 p.eps_snow, v[3])
    ELSE 0
EB_F_can_soil(v, p) ==
    IF p.A_can # 0
    THEN lw_pair(p.eps_can, MulDiv(EB_A_can_soil(p), ExpFx(-5 * p.LAI), 10000), v[1],
                 p.eps_soil, v[4])
    ELSE 0
EB_cond_can_trunk(v, p) ==
    IF p.A_c2t # 0
    THEN MulDiv(Quot(p.k_ct * p.A_c2t, Max(p.d_ct, EPS)), v[1] - v[2], 10000)
    ELSE 0
EB_cond_trunk_soil(v, p) ==
    IF p.A_t2s # 0
    THEN MulDiv(Quot(p.k_ts * p.A_t2s, Max(p.d_ts, EPS)), v[2] - v[4], 10000)
    ELSE 0
EB_cond_trunk_snow(v, p) ==
    IF p.A_t2sn # 0 /\ p.A_snow # 0
    THEN LET R_cond == Quot(p.d_tsn * 10000, Max(p.k_tsn, EPS))
                       + Quot(p.d_s * 10000, Max(p.k_s, EPS))
         IN  Quot(p.A_t2sn * (v[2] - v[3]), Max(R_cond, EPS))
    ELSE 0
EB_cond_snow_soil(v, p) ==
    IF p.A_snow # 0
    THEN MulDiv(Quot(p.k_s * p.A_snow, Max(p.d_s, EPS)), v[3] - v[4], 10000)
    ELSE 0
EB_cond_soil_deep(v, p) ==
    IF p.A_soil + p.A_snow # 0
    THEN MulDiv(Quot((p.A_soil + p.A_snow) * p.k_soil, Max(p.d_soil, EPS)),
                v[4] - p.T_deep, 10000)
    ELSE 0
EB_F_trunk_sky(p) == IF p.A_can > 0 THEN 4000 ELSE 10000
EB_LW_can_atm(v, p) ==
    IF p.A_can # 0
    THEN MulDiv(EB_LW_down(p) - lwT4(v[1]), MulDiv(p.eps_can, p.A_can, 10000), 10000)
    ELSE 0
EB_LW_trunk_atm(v, p) ==
    IF p.A_trunk_vert # 0
    THEN MulDiv(EB_LW_down(p) - lwT4(v[2]),
                MulDiv(MulDiv(p.eps_trunk, p.A_trunk_vert, 10000), EB_F_trunk_sky(p), 10000),
                10000)
    ELSE 0
EB_LW_snow_atm(v, p) ==
    IF p.A_snow # 0
    THEN MulDiv(EB_LW_down(p) - lwT4(v[3]), MulDiv(p.eps_snow, EB_A_snow_sky(p), 10000), 10000)
    ELSE 0
EB_LW_soil_atm(v, p) ==
    MulDiv(EB_LW_down(p) - lwT4(v[4]), MulDiv(p.eps_soil, EB_A_soil_sky(p), 10000), 10000)
EB_conv_can_atm(v, p) ==
    IF p.A_can # 0 THEN MulDiv(MulDiv(p.h_can, p.A_can, 10000), v[1] - p.T_atm, 1000) ELSE 0
EB_conv_trunk_atm(v, p) ==
    IF p.A_trunk_vert # 0
    THEN MulDiv(MulDiv(p.h_trunk, p.A_trunk_vert, 10000), v[2] - p.T_atm, 1000)
    ELSE 0
EB_conv_snow_atm(v, p) ==
    IF p.A_snow # 0 THEN MulDiv(MulDiv(p.h_snow, p.A_snow, 10000), v[3] - p.T_atm, 1000) ELSE 0
EB_conv_soil_atm(v, p) ==
    MulDiv(MulDiv(p.h_soil, p.A_soil, 10000), v[4] - p.T_atm, 1000)
EB_evap_can(p) == IF p.A_can # 0 THEN MulDiv(p.dot_m_vap_can, p.Lv, 1000) ELSE 0
EB_evap_soil(p) == MulDiv(p.dot_m_vap_soil, p.Lv, 1000)
EB_photo_can(p) == IF p.A_can # 0 THEN MulDiv(p.dot_m_photo, p.dH_photo, 1000) ELSE 0
EB_melt_snow(v, p) ==
    IF p.A_snow # 0 /\ v[3] >= 273150 THEN MulDiv(p.dot_m_melt, p.Lf, 1000) ELSE 0

\* variant of f_can: the inactive residual is normalised like the active one
f_can_normalised(v, p) ==
    IF p.A_can # 0
    THEN Quot(EB_SW_can_abs(p) - EB_F_can_snow(v, p) - EB_F_can_soil(v, p)
              + EB_LW_can_atm(v, p) - EB_cond_can_trunk(v, p) - EB_conv_can_atm(v, p)
              - EB_evap_can(p) - EB_photo_can(p), NDIM_FLUX)
    ELSE Quot(v[1] - p.T_atm, NDIM_FLUX)

\* lines 260-262
f_can(v, p) ==
    IF p.A_can # 0
    THEN Quot(EB_SW_can_abs(p) - EB_F_can_snow(v, p) - EB_F_can_soil(v, p)
              + EB_LW_can_atm(v, p) - EB_cond_can_trunk(v, p) - EB_conv_can_atm(v, p)
              - EB_evap_can(p) - EB_photo_can(p), NDIM_FLUX)
    ELSE v[1] - p.T_atm
\* lines 263-265
f_trunk(v, p) ==
    IF p.A_trunk_plan # 0
    THEN Quot(EB_SW_trunk_dir(p) + EB_SW_trunk_can(p) + EB_LW_trunk_atm(v, p)
              + EB_cond_can_trunk(v, p) - EB_cond_trunk_soil(v, p)
              - EB_cond_trunk_snow(v, p) - EB_conv_trunk_atm(v, p), NDIM_FLUX)
    ELSE v[2] - p.T_atm
\* lines 266-268
f_snow(v, p) ==
    IF p.A_snow # 0
    THEN Quot(EB_SW_snow_dir(p) + EB_SW_snow_can(p) + EB_F_can_snow(v, p)
              + EB_LW_snow_atm(v, p) + EB_cond_trunk_snow(v, p) - EB_cond_snow_soil(v, p)
              - EB_conv_snow_atm(v, p) - EB_melt_snow(v, p), NDIM_FLUX)
    ELSE v[3] - p.T_atm
\* lines 269-270
f_soil(v, p) ==
    Quot(EB_SW_soil_dir(p) + EB_SW_soil_can(p) + EB_F_can_soil(v, p) + EB_LW_soil_atm(v, p)
         + EB_cond_trunk_soil(v, p) + EB_cond_snow_soil(v, p) - EB_conv_soil_atm(v, p)
         - EB_cond_soil_deep(v, p) - EB_evap_soil(p), NDIM_FLUX)

energy_balance(v, p) == <<f_can(v, p), f_trunk(v, p), f_snow(v, p), f_soil(v, p)>>

\* ----------------------------------------------------------------- the solver
\* scipy.optimize.least_squares(energy_balance, guess, bounds=T_BOUNDS, ...) is
\* library code.  What the driver relies on: the returned x lies in the box,
\* fun is energy_balance at x, success is False when the evaluation budget ran
\* out.  The states the search may stop at are modelled by a node-by-node
\* secant search on each node's own temperature, stopped
\* after 1 or Sweeps rounds (at the guess itself when the budget is 1).
Sweeps == 3

residual(j, v, p) ==
    CASE j = 1 -> f_can(v, p) [] j = 2 -> f_trunk(v, p)
      [] j = 3 -> f_snow(v, p) [] OTHER -> f_soil(v, p)

\* one secant step on node j: the residual is sampled at v[j] and 1 K above
secant(t, t0, r0, r1) ==
    IF r1 = r0 THEN t ELSE Max(T_LO, Min(T_HI, t0 - Quot(r0 * 1000, r1 - r0)))
node_probe(j, v, p, t0) ==
    secant(v[j], t0, residual(j, [v EXCEPT ![j] = t0], p),
           residual(j, [v EXCEPT ![j] = t0 + 1000], p))
node_root(j, v, p) == node_probe(j, v, p, Min(v[j], T_HI - 1000))

RECURSIVE sweep(_, _, _)
sweep(j, v, p) ==
    IF j > 4 THEN v ELSE sweep(j + 1, [v EXCEPT ![j] = node_root(j, v, p)], p)

RECURSIVE relax(_, _, _)
relax(n, v, p) == IF n = 0 THEN v ELSE relax(n - 1, sweep(1, v, p), p)

clip(g) == [j \in 1..4 |-> Max(T_LO, Min(T_HI, g[j]))]

\* ------------------------------------------------- diagnostic flux breakdown
\* one operator per local of compute_flux_components (lines 277-344)
FC_A_can_snow(p) == canopy_overlap(p.A_can, p.A_snow, p.A_soil)[1]
FC_A_can_soil(p) == canopy_overlap(p.A_can, p.A_snow, p.A_soil)[2]
FC_A_snow_sky(p) == p.A_snow - FC_A_can_snow(p)
FC_A_soil_sky(p) == p.A_soil - FC_A_can_soil(p)
FC_eps_atm(p) ==
    Min(9000, 8000 + MulDiv(2000, TanhFx(Quot((p.T_atm - 260000) * 10, 15)), 10000))
FC_LW_down(p) == MulDiv(lwT4(p.T_atm), FC_eps_atm(p), 10000)
FC_gap(p) == 10000 - Min(p.A_can, 10000)
FC_SW_tr(p) ==
    IF p.A_can # 0
    THEN MulDiv(MulDiv(MulDiv(p.Q_solar, p.A_can, 10000), 10000 - p.alpha_can, 10000),
                p.K_can, 10000)
    ELSE 0
FC_SW_abs(p) ==
    IF p.A_can # 0
    THEN MulDiv(MulDiv(MulDiv(p.Q_solar, p.A_can, 10000), 10000 - p.alpha_can, 10000),
                10000 - p.K_can, 10000)
    ELSE 0
FC_SW_trunk_dir(p) ==
    IF p.A_trunk_plan # 0
    THEN MulDiv(MulDiv(p.Q_solar, MulDiv(FC_gap(p), p.A_trunk_plan, 10000), 10000),
                10000 - p.alpha_trunk, 10000)
    ELSE 0
FC_SW_trunk_can(p) ==
    IF p.A_trunk_plan # 0
    THEN MulDiv(MulDiv(FC_SW_tr(p), p.A_trunk_plan, 10000), 10000 - p.alpha_trunk, 10000)
    ELSE 0
FC_SW_snow_dir(p) ==
    IF p.A_snow # 0
    THEN MulDiv(MulDiv(p.Q_solar, FC_A_snow_sky(p), 10000), 10000 - p.alpha_snow, 10000)
    ELSE 0
FC_SW_snow_can(p) ==
    IF p.A_snow # 0
    THEN MulDiv(MulDiv(FC_SW_tr(p), FC_A_can_snow(p), 10000), 10000 - p.alpha_snow, 10000)
    ELSE 0
FC_SW_soil_dir(p) ==
    MulDiv(MulDiv(p.Q_solar, FC_A_soil_sky(p), 10000), 10000 - p.alpha_soil, 10000)
FC_SW_soil_can(p) ==
    MulDiv(MulDiv(FC_SW_tr(p), FC_A_can_soil(p), 10000), 10000 - p.alpha_soil, 10000)
FC_A_can_snow_eff(p) ==
    IF p.A_can # 0 /\ p.A_snow # 0
    THEN MulDiv(FC_A_can_snow(p), ExpFx(-5 * p.LAI), 10000)
    ELSE 0
FC_A_can_soil_eff(p) ==
    IF p.A_can # 0 THEN MulDiv(FC_A_can_soil(p), ExpFx(-5 * p.LAI), 10000) ELSE 0
FC_F_can_snow(v, p) == lw_pair(p.eps_can, FC_A_can_snow_eff(p), v[1], p.eps_snow, v[3])
FC_F_can_soil(v, p) == lw_pair(p.eps_can, FC_A_can_soil_eff(p), v[1], p.eps_soil, v[4])
FC_cond_can_trunk(v, p) ==
    IF p.A_c2t # 0
    THEN MulDiv(Quot(p.k_ct * p.A_c2t, Max(p.d_ct, EPS)), v[1] - v[2], 10000)
    ELSE 0
FC_cond_trunk_soil(v, p) ==
    IF p.A_t2s # 0
    THEN MulDiv(Quot(p.k_ts * p.A_t2s, Max(p.d_ts, EPS)), v[2] - v[4], 10000)
    ELSE 0
FC_cond_trunk_snow(v, p) ==
    IF p.A_t2sn # 0 /\ p.A_snow # 0
    THEN LET R_cond == Quot(p.d_tsn * 10000, Max(p.k_tsn, EPS))
                       + Quot(p.d_s * 10000, Max(p.k_s, EPS))
         IN  Quot(p.A_t2sn * (v[2] - v[3]), Max(R_cond, EPS))
    ELSE 0
FC_cond_snow_soil(v, p) ==
    IF p.A_snow # 0
    THEN MulDiv(Quot(p.k_s * p.A_snow, Max(p.d_s, EPS)), v[3] - v[4], 10000)
    ELSE 0
FC_cond_soil_deep(v, p) ==
    IF p.A_soil + p.A_snow # 0
    THEN MulDiv(Quot((p.A_soil + p.A_snow) * p.k_soil, Max(p.d_soil, EPS)),
                v[4] - p.T_deep, 10000)
    ELSE 0
FC_F_trunk_sky(p) == IF p.A_can > 0 THEN 4000 ELSE 10000
FC_LW_can_atm(v, p) ==
    IF p.A_can # 0
    THEN MulDiv(FC_LW_down(p) - lwT4(v[1]), MulDiv(p.eps_can, p.A_can, 10000), 10000)
    ELSE 0
FC_LW_trunk_atm(v, p) ==
    IF p.A_trunk_vert # 0
    THEN MulDiv(FC_LW_down(p) - lwT4(v[2]),
                MulDiv(MulDiv(p.eps_trunk, p.A_trunk_vert, 10000), FC_F_trunk_sky(p), 10000),
                10000)
    ELSE 0
FC_LW_snow_atm(v, p) ==
    IF p.A_snow # 0
    THEN MulDiv(FC_LW_down(p) - lwT4(v[3]), MulDiv(p.eps_snow, FC_A_snow_sky(p), 10000), 10000)
    ELSE 0
FC_LW_soil_atm(v, p) ==
    MulDiv(FC_LW_down(p) - lwT4(v[4]), MulDiv(p.eps_soil, FC_A_soil_sky(p), 10000), 10000)
FC_conv_can_atm(v, p) ==
    IF p.A_can # 0 THEN MulDiv(MulDiv(p.h_can, p.A_can, 10000), v[1] - p.T_atm, 1000) ELSE 0
FC_conv_trunk_atm(v, p) ==
    IF p.A_trunk_vert # 0
    THEN MulDiv(MulDiv(p.h_trunk, p.A_trunk_vert, 10000), v[2] - p.T_atm, 1000)
    ELSE 0
FC_conv_snow_atm(v, p) ==
    IF p.A_snow # 0 THEN MulDiv(MulDiv(p.h_snow, p.A_snow, 10000), v[3] - p.T_atm, 1000) ELSE 0
FC_conv_soil_atm(v, p) ==
    MulDiv(MulDiv(p.h_soil, p.A_soil, 10000), v[4] - p.T_atm, 1000)
FC_evap_can(p) == IF p.A_can # 0 THEN MulDiv(p.dot_m_vap_can, p.Lv, 1000) ELSE 0
FC_evap_soil(p) == MulDiv(p.dot_m_vap_soil, p.Lv, 1000)
FC_photo_can(p) == IF p.A_can # 0 THEN MulDiv(p.dot_m_photo, p.dH_photo, 1000) ELSE 0
\* variant of FC_melt_snow: the melt sink is counted whenever there is snow,
\* whatever its temperature
FC_melt_snow_ungated(v, p) ==
    IF p.A_snow # 0 THEN MulDiv(p.dot_m_melt, p.Lf, 1000) ELSE 0
\* line 323
FC_melt_snow(v, p) ==
    IF p.A_snow # 0 /\ v[3] >= 273150 THEN MulDiv(p.dot_m_melt, p.Lf, 1000) ELSE 0


RECURSIVE SumOver(_, _)
SumOver(f, keys) ==
    IF keys = {} THEN 0
    ELSE LET k == CHOOSE x \in keys : TRUE
         IN  f[k] + SumOver(f, keys \ {k})

\* variant of with_net: the net leaves the last term out
with_net_short(sec) ==
    sec @@ [net |-> SumOver(sec, DOMAIN sec \ {CHOOSE k \in DOMAIN sec : TRUE})]

\* flux[node]["net"] = sum(flux[node].values())
with_net(sec) == sec @@ [net |-> SumOver(sec, DOMAIN sec)]

\* lines 326-329
FC_canopy(v, p) ==
    with_net([SW_abs |-> FC_SW_abs(p), LW_atm |-> FC_LW_can_atm(v, p),
              LW_to_snow |-> -FC_F_can_snow(v, p), LW_to_soil |-> -FC_F_can_soil(v, p),
              conv_atm |-> -FC_conv_can_atm(v, p), cond_to_trunk |-> -FC_cond_can_trunk(v, p),
              latent_evap |-> -FC_evap_can(p), latent_photo |-> -FC_photo_can(p)])
\* lines 331-334
FC_trunk(v, p) ==
    with_net([SW_dir |-> FC_SW_trunk_dir(p), SW_can |-> FC_SW_trunk_can(p),
              LW_atm |-> FC_LW_trunk_atm(v, p), cond_from_can |-> FC_cond_can_trunk(v, p),
              cond_to_soil |-> -FC_cond_trunk_soil(v, p),
              cond_to_snow |-> -FC_cond_trunk_snow(v, p),
              conv_atm |-> -FC_conv_trunk_atm(v, p)])
\* lines 336-339
FC_snow(v, p) ==
    with_net([SW_dir |-> FC_SW_snow_dir(p), SW_can |-> FC_SW_snow_can(p),
              LW_atm |-> FC_LW_snow_atm(v, p), LW_from_can |-> FC_F_can_snow(v, p),
              cond_from_trunk |-> FC_cond_trunk_snow(v, p),
              cond_to_soil |-> -FC_cond_snow_soil(v, p),
              conv_atm |-> -FC_conv_snow_atm(v, p), melt_sink |-> -FC_melt_snow(v, p)])
\* lines 340-343
FC_soil(v, p) ==
    with_net([SW_dir |-> FC_SW_soil_dir(p), SW_can |-> FC_SW_soil_can(p),
              LW_atm |-> FC_LW_soil_atm(v, p), LW_from_can |-> FC_F_can_soil(v, p),
              cond_from_trunk |-> FC_cond_trunk_soil(v, p),
              cond_from_snow |-> FC_cond_snow_soil(v, p),
              conv_atm |-> -FC_conv_soil_atm(v, p), latent_evap |-> -FC_evap_soil(p),
              cond_to_deep |-> -FC_cond_soil_deep(v, p)])

\* variant of FC_nodes: every section is emitted whatever the areas
FC_nodes_all(p) == {"canopy", "trunk", "snow", "soil"}

\* the sections emitted: lines 325, 330, 335, 340
FC_nodes(p) ==
    (IF p.A_can # 0 THEN {"canopy"} ELSE {})
    \cup (IF p.A_trunk_plan # 0 THEN {"trunk"} ELSE {})
    \cup (IF p.A_snow # 0 THEN {"snow"} ELSE {})
    \cup {"soil"}

compute_flux_components(v, p) ==
    [node \in FC_nodes(p) |->
        CASE node = "canopy" -> FC_canopy(v, p)
          [] node = "trunk" -> FC_trunk(v, p)
          [] node = "snow" -> FC_snow(v, p)
          [] OTHER -> FC_soil(v, p)]

\* ------------------------------------------------------------------ aggregator
EmptyDict == [x \in {} |-> 0]

\* lines 356-359: one breakdown added into the running sums
add_dict(out, d_item) ==
    [node \in DOMAIN out \cup DOMAIN d_item |->
        IF node \notin DOMAIN d_item THEN out[node]
        ELSE LET tgt == IF node \in DOMAIN out THEN out[node] ELSE EmptyDict
                 comps == d_item[node]
             IN  [k \in DOMAIN tgt \cup DOMAIN comps |->
                    IF k \notin DOMAIN comps THEN tgt[k]
                    ELSE (IF k \in DOMAIN tgt THEN tgt[k] ELSE 0) + comps[k]]]

RECURSIVE sum_dicts(_, _)
sum_dicts(dicts, n) ==
    IF n = 0 THEN EmptyDict ELSE add_dict(sum_dicts(dicts, n - 1), dicts[n])

\* variant of avg_divisor: the number of breakdowns that hold the node
avg_divisor_present(dicts, node, k) ==
    Cardinality({n \in 1..Len(dicts) : node \in DOMAIN dicts[n]})

\* lines 360-363: the divisor is the number of breakdowns
avg_divisor(dicts, node, k) == Len(dicts)

\* lines 350-364
average_flux_dicts(dicts) ==
    LET out == sum_dicts(dicts, Len(dicts))
    IN  IF Len(dicts) # 0
        THEN [node \in DOMAIN out |->
                [k \in DOMAIN out[node] |-> Quot(out[node][k], avg_divisor(dicts, node, k))]]
        ELSE out

\* the search stops after one round or after Sweeps
lsq_states(g, p) == {relax(1, clip(g), p), relax(Sweeps, clip(g), p)}

\* lines 394-397: every result least_squares may hand back for this input
least_squares(g, p, maxiter) ==
    IF maxiter <= 1
    THEN {[x |-> clip(g), fun |-> energy_balance(clip(g), p), success |-> FALSE]}
    ELSE {[x |-> x, fun |-> energy_balance(x, p), success |-> b] :
             x \in lsq_states(g, p), b \in BOOLEAN}

\* ------------------------------------------------------- Monte-Carlo driver
RES_TOL == 5
SOIL_QC == 20000

\* variant of default_rng: one generator is kept for the life of the process
default_rng_shared(seed, cur) == {cur}

\* line 376: default_rng(seed); cur is the state of the generator of the
\* call before.  Without a seed the state comes from system entropy.
default_rng(seed, cur) == IF seed = None THEN 0..7 ELSE {seed_state(seed)}

\* lines 380-392: the initial guess; season is the argument as passed

\* variant of guess_drawn: the frozen-snow shortcut is taken below 265 K, a
\* temperature inside the winter range, so the number of draws follows T_atm
guess_drawn_by_value(season, p, s0) ==
    LET cold == p.A_snow > 0 /\ p.T_atm < 265000
    IN  [g |-> <<p.T_atm + (IF season = "summer" THEN draw(1000, 8000, s0, 1)
                            ELSE draw(-2000, 5000, s0, 1)),
                 Quot(p.T_atm + p.T_deep, 2) + draw(-3000, 3000, s0, 2),
                 IF cold THEN 273150 ELSE p.T_atm - draw(1000, 10000, s0, 3),
                 p.T_deep + draw(-2000, 4000, s0, 3 + B(~cold))>>,
         rng |-> AdvN(s0, 3 + B(~cold))]

\* lines 384-389 draw four numbers, or three when the snow is set to 273.15
guess_drawn(season, p, s0) ==
    LET cold == p.A_snow > 0 /\ p.T_atm < 275000
    IN  [g |-> <<p.T_atm + (IF season = "summer" THEN draw(1000, 8000, s0, 1)
                            ELSE draw(-2000, 5000, s0, 1)),
                 Quot(p.T_atm + p.T_deep, 2) + draw(-3000, 3000, s0, 2),
                 IF cold THEN 273150 ELSE p.T_atm - draw(1000, 10000, s0, 3),
                 p.T_deep + draw(-2000, 4000, s0, 3 + B(~cold))>>,
         rng |-> AdvN(s0, 3 + B(~cold))]
\* line 390: without snow the snow node starts between canopy and soil
guess_no_snow(p, d) ==
    IF ~(p.A_snow > 0) THEN [d EXCEPT !.g[3] = Quot(d.g[1] + d.g[4], 2)] ELSE d
\* lines 391-392: summer snow starts at or below freezing
guess_summer_snow(season, p, d) ==
    IF season = "summer" /\ p.A_snow > 0
    THEN [g |-> [d.g EXCEPT ![3] = Min(d.g[3], 273150 + draw(0, 100, d.rng, 1))],
          rng |-> Adv(d.rng)]
    ELSE d
build_guess(season, p, s0) ==
    guess_summer_snow(season, p, guess_no_snow(p, guess_drawn(season, p, s0)))

\* variant of qc_converged: the optimizer's own verdict is not consulted
qc_residuals_only(r) == \A j \in 1..4 : Abs(r.fun[j]) < RES_TOL

\* line 398: the optimizer converged and every residual is small
qc_converged(r) == r.success /\ \A j \in 1..4 : Abs(r.fun[j]) < RES_TOL
\* line 400: the soil temperature is not absurdly far from the air's
qc_soil(r, p) == ~(Abs(r.x[4] - p.T_atm) > SOIL_QC)
\* lines 398-403: the trial is appended
accepted(r, p) == qc_converged(r) /\ qc_soil(r, p)

NoResult == [kind |-> "none"]
NoResponse == [status |-> 0]
Nothing == <<>>
MaxIters == {1, 2500}
\* the fixed seeds run_monte_carlo is called with on its own
SeedArgs == 0..MaxSeed

Init ==
    /\ pc = "idle"
    /\ caller = "nobody"
    /\ args = Nothing
    /\ rng = 0
    /\ i = 0
    /\ par = Nothing
    /\ guess = Nothing
    /\ res = Nothing
    /\ sols_list = <<>>
    /\ pars_list = <<>>
    /\ nsolve = 0
    /\ trace = <<>>
    /\ result = NoResult
    /\ prev = NoResult
    /\ lsq_memo = {}
    /\ response = NoResponse
    /\ fin = Nothing
    /\ fout = Nothing

\* lines 376-377: entry of run_monte_carlo
Enter(a) ==
    /\ args' = a
    /\ rng' \in default_rng(a.seed, rng)
    /\ i' = 0
    /\ sols_list' = <<>>
    /\ pars_list' = <<>>
    /\ nsolve' = 0
    /\ trace' = <<>>
    /\ par' = Nothing
    /\ guess' = Nothing
    /\ res' = Nothing
    /\ result' = NoResult
    /\ pc' = "loop"

\* run_monte_carlo called on its own
CallRunMonteCarlo ==
    /\ pc = "idle"
    /\ \E n \in 0..MaxRuns, season \in Seasons, forest_type \in ForestTypes,
          maxiter \in MaxIters, seed \in SeedArgs :
          Enter([n_runs |-> n, season |-> season, forest_type |-> forest_type,
                 maxiter |-> maxiter, seed |-> seed])
    /\ caller' = "direct"
    /\ UNCHANGED <<prev, lsq_memo, response, fin, fout>>

\* lines 418-429: the handler calls run_monte_carlo(n_runs=100, seed=None);
\* MaxRuns stands for the 100
HandleRunSimulation ==
    /\ pc = "idle"
    /\ \E season \in Seasons, forest_type \in ForestTypes :
          Enter([n_runs |-> MaxRuns, season |-> season, forest_type |-> forest_type,
                 maxiter |-> 2500, seed |-> None])
    /\ caller' = "handler"
    /\ UNCHANGED <<prev, lsq_memo, response, fin, fout>>

\* where control goes when run_monte_carlo returns or raises
AfterCall == IF caller = "handler" THEN "respond" ELSE "done"

\* lines 379-392: the attempt samples its scenario and builds its guess
SampleOk ==
    /\ pc = "loop"
    /\ i < args.n_runs
    /\ \E sp \in {sample_parameters(args.season, args.forest_type, rng)} :
          /\ sp.ok
          /\ par' = sp.p
          /\ \E bg \in {build_guess(args.season, sp.p, sp.rng)} :
                guess' = bg.g /\ rng' = bg.rng
    /\ pc' = "solve"
    /\ UNCHANGED <<caller, args, i, res, sols_list, pars_list, nsolve, trace, result,
                   prev, lsq_memo, response, fin, fout>>

\* line 122: ValueError leaves run_monte_carlo
SampleRaise ==
    /\ pc = "loop"
    /\ i < args.n_runs
    /\ \E sp \in {sample_parameters(args.season, args.forest_type, rng)} :
          ~sp.ok /\ rng' = sp.rng
    /\ i' = i + 1
    /\ result' = [kind |-> "raise", exc |-> "ValueError"]
    /\ pc' = AfterCall
    /\ UNCHANGED <<caller, args, par, guess, res, sols_list, pars_list, nsolve, trace,
                   prev, lsq_memo, response, fin, fout>>

\* lines 394-397: the solver is a function of its input: an input seen before
\* gets the result it got before
Solve ==
    /\ pc = "solve"
    /\ LET key == <<guess, par, args.maxiter>>
           known == {m \in lsq_memo : m.key = key}
       IN  \E out \in (IF known # {} THEN {m.out : m \in known}
                       ELSE least_squares(guess, par, args.maxiter)) :
              /\ res' = out
              /\ lsq_memo' = lsq_memo \cup {[key |-> key, out |-> out]}
    /\ nsolve' = nsolve + 1
    /\ pc' = "qc"
    /\ UNCHANGED <<caller, args, rng, i, par, guess, sols_list, pars_list, trace, result,
                   prev, response, fin, fout>>

\* lines 402-403
Accept ==
    /\ pc = "qc"
    /\ accepted(res, par)
    /\ sols_list' = Append(sols_list, res.x)
    /\ pars_list' = Append(pars_list, par)
    /\ trace' = Append(trace, [p |-> par, res |-> res, kept |-> TRUE])
    /\ i' = i + 1
    /\ pc' = "loop"
    /\ UNCHANGED <<caller, args, rng, par, guess, res, nsolve, result, prev, lsq_memo,
                   response, fin, fout>>

\* variant of Reject: the rejected attempt leaves its entry in both lists
Reject_placeholder ==
    /\ pc = "qc"
    /\ ~accepted(res, par)
    /\ sols_list' = Append(sols_list, res.x)
    /\ pars_list' = Append(pars_list, par)
    /\ trace' = Append(trace, [p |-> par, res |-> res, kept |-> FALSE])
    /\ i' = i + 1
    /\ pc' = "loop"
    /\ UNCHANGED <<caller, args, rng, par, guess, res, nsolve, result, prev, lsq_memo,
                   response, fin, fout>>

\* lines 399, 401: continue
Reject ==
    /\ pc = "qc"
    /\ ~accepted(res, par)
    /\ trace' = Append(trace, [p |-> par, res |-> res, kept |-> FALSE])
    /\ i' = i + 1
    /\ pc' = "loop"
    /\ UNCHANGED <<caller, args, rng, par, guess, res, sols_list, pars_list, nsolve,
                   result, prev, lsq_memo, response, fin, fout>>

\* line 405
Return ==
    /\ pc = "loop"
    /\ i = args.n_runs
    /\ result' = [kind |-> "return", sols |-> sols_list, pars |-> pars_list]
    /\ pc' = AfterCall
    /\ UNCHANGED <<caller, args, rng, i, par, guess, res, sols_list, pars_list, nsolve,
                   trace, prev, lsq_memo, response, fin, fout>>

\* the same call made again, in the same process
CallAgain ==
    /\ pc = "done"
    /\ prev = NoResult
    /\ prev' = result
    /\ Enter(args)
    /\ UNCHANGED <<caller, lsq_memo, response, fin, fout>>

\* ------------------------------------------------------------------ the handler
RECURSIVE SumCol(_, _, _)
SumCol(sols, j, n) == IF n = 0 THEN 0 ELSE sols[n][j] + SumCol(sols, j, n - 1)

\* line 439: np.mean(np.array(sols_list), axis=0)
mean_state(sols) == [j \in 1..4 |-> Quot(SumCol(sols, j, Len(sols)), Len(sols))]

parameter_keys_for_js ==
    {"season", "forest_type", "Q_solar", "alpha_can", "A_can", "LAI", "H_canopy",
     "A_trunk_plan", "A_trunk_vert", "A_snow", "Hsnow", "A_soil", "T_atm", "T_deep", "u"}

\* lines 443-449
temperatures_json(p_representative, avg) ==
    [air |-> p_representative.T_atm,
     canopy |-> avg[1],
     trunk |-> avg[2],
     snow |-> IF p_representative.A_snow > 0 THEN avg[3] ELSE None,
     soil |-> avg[4]]

\* variant of handler_response: empty lists are answered like any others
handler_response_unguarded(r) ==
    IF r.kind = "raise" THEN [status |-> 500, error |-> r.exc]
    ELSE [status |-> 200,
          parameters |-> [k \in parameter_keys_for_js |->
                             IF r.pars = <<>> THEN None ELSE r.pars[1][k]],
          temperatures |-> [air |-> None, canopy |-> None, trunk |-> None,
                            snow |-> None, soil |-> None],
          fluxes |-> average_flux_dicts(
              [n \in 1..Len(r.sols) |-> compute_flux_components(r.sols[n], r.pars[n])])]

\* lines 431-486: the response for what run_monte_carlo returned or raised
handler_response(r) ==
    IF r.kind = "raise" THEN [status |-> 500, error |-> r.exc]
    ELSE IF r.pars = <<>>
    THEN [status |-> 500, error |-> "No successful simulation runs converged. Try again."]
    ELSE LET p_representative == r.pars[1]
         IN  [status |-> 200,
              parameters |-> [k \in parameter_keys_for_js |-> p_representative[k]],
              temperatures |-> temperatures_json(p_representative, mean_state(r.sols)),
              fluxes |-> average_flux_dicts(
                  [n \in 1..Len(r.sols) |-> compute_flux_components(r.sols[n], r.pars[n])])]

Respond ==
    /\ pc = "respond"
    /\ response' = handler_response(result)
    /\ pc' = "answered"
    /\ UNCHANGED <<caller, args, rng, i, par, guess, res, sols_list, pars_list, nsolve,
                   trace, result, prev, lsq_memo, fin, fout>>

Next ==
    \/ CallRunMonteCarlo
    \/ HandleRunSimulation
    \/ SampleOk
    \/ SampleRaise
    \/ Solve
    \/ Accept
    \/ Reject
    \/ Return
    \/ CallAgain
    \/ Respond

Spec == Init /\ [][Next]_vars

\* ------------------------------------------- average_flux_dicts on its own
\* Breakdowns as compute_flux_components may emit them: soil always, snow
\* sometimes, a term present in some breakdowns and not in others.
SnowSections == {[SW_dir |-> 6], [SW_dir |-> -9, melt_sink |-> 4]}
Breakdowns ==
    {[soil |-> [SW_dir |-> a]] : a \in {2, -7}}
    \cup {[soil |-> [SW_dir |-> a], snow |-> sn] : a \in {2, -7}, sn \in SnowSections}

RECURSIVE SeqsUpTo(_, _)
SeqsUpTo(S, n) ==
    IF n = 0 THEN {<<>>}
    ELSE SeqsUpTo(S, n - 1)
         \cup {Append(q, x) : q \in {t \in SeqsUpTo(S, n - 1) : Len(t) = n - 1}, x \in S}

InitAvg ==
    /\ pc = "average"
    /\ fin \in SeqsUpTo(Breakdowns, MaxDicts)
    /\ fout = Nothing
    /\ caller = "nobody"
    /\ args = Nothing
    /\ rng = 0
    /\ i = 0
    /\ par = Nothing
    /\ guess = Nothing
    /\ res = Nothing
    /\ sols_list = <<>>
    /\ pars_list = <<>>
    /\ nsolve = 0
    /\ trace = <<>>
    /\ result = NoResult
    /\ prev = NoResult
    /\ lsq_memo = {}
    /\ response = NoResponse

\* lines 350-364: the call
Average ==
    /\ pc = "average"
    /\ fout' = average_flux_dicts(fin)
    /\ pc' = "averaged"
    /\ UNCHANGED <<caller, args, rng, i, par, guess, res, sols_list, pars_list, nsolve,
                   trace, result, prev, lsq_memo, response, fin>>

NextAvg == Average

SpecAvg == InitAvg /\ [][NextAvg]_vars

\* =============================================================== properties
Returned == result.kind = "return"
Raised == result.kind = "raise"
CallOver == pc \in {"done", "respond", "answered"}
Within(x, tol) == -tol < x /\ x < tol
IsKept(t) == t.kept
KeptTrials == SelectSeq(trace, IsKept)
NodeNames == {"canopy", "trunk", "snow", "soil"}

\* the three conditions of acceptance, read off one attempt of the trace
ConvergedFlag(t) == t.res.success
ResidualsSmall(t) == \A j \in 1..4 : Within(t.res.fun[j], RES_TOL)
SoilNearAir(t) ==
    /\ t.res.x[4] - t.p.T_atm <= SOIL_QC
    /\ t.p.T_atm - t.res.x[4] <= SOIL_QC

\* C1: a trial is accepted (its state and scenario appended) if and only if the
\* optimizer reports success, every one of the 4 residuals is strictly below
\* 5e-3 in absolute value, and the soil temperature is within 20 K of T_atm;
\* failing any one of the three rejects the trial.
C1_AcceptedIffAllThree ==
    /\ \A n \in 1..Len(trace) :
          trace[n].kept <=>
             (ConvergedFlag(trace[n]) /\ ResidualsSmall(trace[n]) /\ SoilNearAir(trace[n]))
    /\ Len(sols_list) = Len(KeptTrials)
    /\ Len(pars_list) = Len(KeptTrials)

\* a trial that converged with small residuals and is rejected for its soil
\* temperature alone
C1_Witness ==
    \E n \in 1..Len(trace) :
        /\ ~trace[n].kept
        /\ ConvergedFlag(trace[n])
        /\ ResidualsSmall(trace[n])
        /\ ~SoilNearAir(trace[n])
        /\ Len(sols_list) = Len(KeptTrials)

\* C2: run_monte_carlo makes exactly n_runs sample-and-solve attempts whatever
\* the accept/reject outcomes; the two returned lists have the same length, at
\* most n_runs, and are the accepted attempts in attempt order: entry k of the
\* states is the solved state of the scenario at entry k, and a rejected
\* attempt has no entry.
C2_AttemptsAndAlignment ==
    /\ nsolve = Len(trace) + (IF pc = "qc" THEN 1 ELSE 0)
    /\ (pc \in {"loop", "solve", "qc"} => i = Len(trace) /\ nsolve <= args.n_runs)
    /\ Returned =>
          /\ nsolve = args.n_runs
          /\ Len(result.sols) = Len(result.pars)
          /\ Len(result.sols) <= args.n_runs
          /\ Len(result.sols) = Len(KeptTrials)
          /\ \A k \in 1..Len(KeptTrials) :
                /\ result.sols[k] = KeptTrials[k].res.x
                /\ result.pars[k] = KeptTrials[k].p

\* a call that returned after a rejected attempt followed by an accepted one
C2_Witness ==
    /\ Returned
    /\ Len(trace) >= 2
    /\ ~trace[1].kept
    /\ trace[2].kept
    /\ Len(result.sols) < args.n_runs

\* the sum the aggregator should form for one node/term key: a breakdown
\* without the node or without the term adds 0
TermOf(d, node, k) ==
    IF node \in DOMAIN d THEN (IF k \in DOMAIN d[node] THEN d[node][k] ELSE 0) ELSE 0
RECURSIVE TermTotal(_, _, _, _)
TermTotal(dicts, node, k, n) ==
    IF n = 0 THEN 0 ELSE TermTotal(dicts, node, k, n - 1) + TermOf(dicts[n], node, k)
NodesSeen(dicts) == UNION {DOMAIN dicts[n] : n \in 1..Len(dicts)}
TermsSeen(dicts, node) ==
    UNION {DOMAIN dicts[n][node] : n \in {m \in 1..Len(dicts) : node \in DOMAIN dicts[m]}}

\* C3: average_flux_dicts over n breakdowns returns, for every node/term key
\* seen in any breakdown, the sum of the term over all breakdowns (0 where the
\* node or term is missing) divided by n, the number of all breakdowns, not by
\* the number of breakdowns that hold the node.
C3_AverageOverAll ==
    pc = "averaged" =>
        /\ DOMAIN fout = NodesSeen(fin)
        /\ \A node \in NodesSeen(fin) :
              /\ DOMAIN fout[node] = TermsSeen(fin, node)
              /\ \A k \in TermsSeen(fin, node) :
                    fout[node][k] = Quot(TermTotal(fin, node, k, Len(fin)), Len(fin))

\* two breakdowns, one of them with a snow section whose SW_dir is 6: the
\* aggregated snow term is 6/2 and not 6/1
C3_Witness ==
    /\ pc = "averaged"
    /\ Len(fin) = 2
    /\ "snow" \in DOMAIN fin[1]
    /\ "snow" \notin DOMAIN fin[2]
    /\ fin[1].snow.SW_dir = 6
    /\ fout.snow.SW_dir = 3

NoneKept == \A n \in 1..Len(trace) : ~trace[n].kept

\* C4: when every attempt is rejected, run_monte_carlo returns two empty lists
\* without raising, and the handler then answers with a failure (error, status
\* 500) that holds no parameters, temperatures or fluxes; an answer with
\* temperatures and fluxes is given only when at least one trial was accepted.
C4_EmptyEnsembleFails ==
    /\ (CallOver /\ Len(trace) = args.n_runs /\ NoneKept) =>
          /\ Returned
          /\ result.sols = <<>>
          /\ result.pars = <<>>
    /\ (pc = "answered" /\ Returned /\ NoneKept) =>
          /\ response.status = 500
          /\ DOMAIN response = {"status", "error"}
    /\ (pc = "answered" /\ DOMAIN response \cap {"parameters", "temperatures", "fluxes"} # {}) =>
          /\ response.status = 200
          /\ Returned
          /\ ~NoneKept
          /\ Len(result.sols) >= 1

\* a handler call whose attempts were all made and all rejected
C4_Witness ==
    /\ pc = "answered"
    /\ Returned
    /\ Len(trace) = args.n_runs
    /\ Len(trace) >= 2
    /\ NoneKept
    /\ response.status = 500

ForestKnown == lower(args.forest_type) \in {"coniferous", "deciduous", "none"}

\* C5: sample_parameters raises ValueError whenever forest_type (case folded,
\* as line 79 does) is not one of coniferous, deciduous, none, and returns a
\* scenario otherwise; in run_monte_carlo with n_runs >= 1 the error is raised
\* at the first attempt, before any solve, is not absorbed or retried, and the
\* handler turns it into a failure response with no partial result.
C5_UnknownForestRaises ==
    /\ Raised =>
          /\ ~ForestKnown
          /\ result.exc = "ValueError"
          /\ i = 1 /\ nsolve = 0 /\ trace = <<>>
          /\ sols_list = <<>> /\ pars_list = <<>>
          /\ CallOver
    /\ (pc \in {"solve", "qc"} \/ par # Nothing) => ForestKnown
    /\ (CallOver /\ args.n_runs >= 1 /\ ~ForestKnown) => Raised
    /\ (CallOver /\ ForestKnown) => Returned
    /\ (pc = "answered" /\ Raised) =>
          /\ response.status = 500
          /\ DOMAIN response = {"status", "error"}

\* the handler has answered a request for a forest type it does not know
C5_Witness ==
    /\ pc = "answered"
    /\ Raised
    /\ args.forest_type = "tropical"
    /\ args.n_runs >= 1
    /\ response.status = 500

\* temperature states the scenario in hand is examined at: the guess, the
\* solver's answer, and two fixed states far from both
ProbeStates ==
    {<<250000, 262000, 274000, 286000>>, <<331000, 305000, 273150, 212000>>}
    \cup (IF guess = Nothing THEN {} ELSE {guess})
    \cup (IF res = Nothing THEN {} ELSE {res.x})

\* the canopy and trunk flux terms of energy_balance
CanopyTrunkTerms(v, p) ==
    {EB_SW_trans(p), EB_SW_can_abs(p), EB_SW_trunk_dir(p), EB_SW_trunk_can(p),
     EB_SW_snow_can(p), EB_SW_soil_can(p), EB_F_can_snow(v, p), EB_F_can_soil(v, p),
     EB_cond_can_trunk(v, p), EB_cond_trunk_soil(v, p), EB_cond_trunk_snow(v, p),
     EB_LW_can_atm(v, p), EB_LW_trunk_atm(v, p), EB_conv_can_atm(v, p),
     EB_conv_trunk_atm(v, p), EB_evap_can(p), EB_photo_can(p)}

\* C6: in every scenario sampled with forest_type "none", in either season,
\* A_can, A_trunk_plan, A_trunk_vert, A_c2t, A_t2s, A_t2sn, k_ct, k_ts, k_tsn
\* are exactly 0, every canopy and trunk flux term of energy_balance is exactly
\* 0, and at every temperature state the canopy and trunk residuals are
\* T_can - T_atm and T_trunk - T_atm, not divided by NDIM_FLUX.
C6_BareGroundIsInert ==
    (par # Nothing /\ par.forest_type = "none") =>
        /\ \A k \in {"A_can", "A_trunk_plan", "A_trunk_vert", "A_c2t", "A_t2s", "A_t2sn",
                     "k_ct", "k_ts", "k_tsn"} : par[k] = 0
        /\ \A v \in ProbeStates :
              /\ CanopyTrunkTerms(v, par) = {0}
              /\ energy_balance(v, par)[1] = v[1] - par.T_atm
              /\ energy_balance(v, par)[2] = v[2] - par.T_atm

\* a winter scenario without forest has been solved, and its canopy residual
\* at a probe is a temperature difference of tens of kelvin
C6_Witness ==
    /\ par # Nothing
    /\ res # Nothing
    /\ par.forest_type = "none"
    /\ par.season = "winter"
    /\ par.A_snow > 0
    /\ energy_balance(<<331000, 305000, 273150, 212000>>, par)[1] = 331000 - par.T_atm
    /\ 331000 - par.T_atm > 50000

\* C7: compute_flux_components emits the canopy section iff A_can is nonzero,
\* the trunk section iff A_trunk_plan is nonzero, the snow section iff A_snow
\* is nonzero, and the soil section always; so a run with season "summer" and
\* forest_type "none" that has an accepted trial is answered with a flux
\* breakdown whose only node is "soil" and with temperatures.snow null.
C7_SectionsFollowAreas ==
    /\ (par # Nothing /\ guess # Nothing) =>
          LET nodes == DOMAIN compute_flux_components(guess, par)
          IN  /\ nodes \subseteq NodeNames
              /\ "canopy" \in nodes <=> par.A_can # 0
              /\ "trunk" \in nodes <=> par.A_trunk_plan # 0
              /\ "snow" \in nodes <=> par.A_snow # 0
              /\ "soil" \in nodes
    /\ (pc = "answered" /\ lower(args.season) = "summer"
          /\ lower(args.forest_type) = "none" /\ ~NoneKept) =>
          /\ response.status = 200
          /\ DOMAIN response.fluxes = {"soil"}
          /\ response.temperatures.snow = None

\* a summer request without forest, answered from at least one accepted trial
C7_Witness ==
    /\ pc = "answered"
    /\ args.season = "summer"
    /\ args.forest_type = "none"
    /\ ~NoneKept
    /\ response.status = 200
    /\ DOMAIN response.fluxes = {"soil"}

\* the sum of a section's terms other than "net"
RECURSIVE TermsSum(_, _)
TermsSum(sec, keys) ==
    IF keys = {} THEN 0
    ELSE LET k == CHOOSE x \in keys : TRUE
         IN  sec[k] + TermsSum(sec, keys \ {k})
NetIsSum(sec) == sec.net = TermsSum(sec, DOMAIN sec \ {"net"})

\* the breakdown of an accepted trial
KeptFluxes(t) == compute_flux_components(t.res.x, t.p)

\* C8 (as amended): for every accepted trial and every section emitted, "net"
\* equals the sum of the section's other terms, and |net| is below the
\* acceptance threshold times the normalisation, 5e-3 * NDIM_FLUX = 0.5 W m-2:
\* the threshold is applied to the residual, which is the net divided by
\* NDIM_FLUX.
C8_NetBelowScaledThreshold ==
    \A n \in 1..Len(KeptTrials) :
        \A node \in DOMAIN KeptFluxes(KeptTrials[n]) :
            /\ NetIsSum(KeptFluxes(KeptTrials[n])[node])
            /\ Within(KeptFluxes(KeptTrials[n])[node].net, RES_TOL * NDIM_FLUX)

\* C8 as stated: "net" is the sum of the other terms and |net| < 5e-3 (in
\* W m-2, that is 5 mW m-2)
C8_NetBelowThreshold ==
    \A n \in 1..Len(KeptTrials) :
        \A node \in DOMAIN KeptFluxes(KeptTrials[n]) :
            /\ NetIsSum(KeptFluxes(KeptTrials[n])[node])
            /\ Within(KeptFluxes(KeptTrials[n])[node].net, 5)

\* an accepted trial with a section whose net is at least 5e-3 W m-2 while
\* the residual of that node is below 5e-3
C8_Witness ==
    \E n \in 1..Len(KeptTrials) :
        /\ ResidualsSmall(KeptTrials[n])
        /\ ~Within(KeptFluxes(KeptTrials[n]).soil.net, 5)
        /\ Within(KeptFluxes(KeptTrials[n]).soil.net, RES_TOL * NDIM_FLUX)

\* C9: two calls of run_monte_carlo with the same seed, n_runs, season,
\* forest_type and maxiter return the same accepted sequences: same length,
\* same states and same scenarios at every index.
C9_SeedReproduces ==
    (pc = "done" /\ prev # NoResult /\ args.seed # None) =>
        /\ result.kind = prev.kind
        /\ Returned =>
              /\ Len(result.sols) = Len(prev.sols)
              /\ Len(result.pars) = Len(prev.pars)
              /\ \A k \in 1..Len(result.sols) :
                    result.sols[k] = prev.sols[k] /\ result.pars[k] = prev.pars[k]

\* a seeded call made twice, with accepted trials both times
C9_Witness ==
    /\ pc = "done"
    /\ prev # NoResult
    /\ args.seed # None
    /\ Returned
    /\ Len(result.sols) >= 1
    /\ Len(prev.sols) >= 1

\* C10: in every scenario returned by sample_parameters A_snow is 0 or at
\* least 1e-3; A_snow, A_soil and A_trunk_plan are non-negative and sum to at
\* most 1; and A_soil is the remainder 1 - A_trunk_plan - A_snow for the final
\* A_snow, also where the threshold set A_snow to 0.
C10_GroundFractions ==
    par # Nothing =>
        /\ par.A_snow = 0 \/ par.A_snow >= 10
        /\ par.A_snow >= 0 /\ par.A_soil >= 0 /\ par.A_trunk_plan >= 0
        /\ par.A_snow + par.A_soil + par.A_trunk_plan <= 10000
        /\ par.A_soil = 10000 - par.A_trunk_plan - par.A_snow

\* a forested summer scenario, whose snow area the threshold left at 0, and
\* whose soil is what the trunk leaves
C10_Witness ==
    /\ par # Nothing
    /\ par.season = "summer"
    /\ par.A_trunk_plan > 0
    /\ par.A_snow = 0
    /\ par.A_soil = 10000 - par.A_trunk_plan
    /\ par.A_soil < 10000

\* the three contacting pairs of a scenario: contact area, conductance and
\* path length as sample_parameters returned them
ContactPairs(p) ==
    {[pair |-> "canopy-trunk", A |-> p.A_c2t, k |-> p.k_ct, d |-> p.d_ct],
     [pair |-> "trunk-soil", A |-> p.A_t2s, k |-> p.k_ts, d |-> p.d_ts],
     [pair |-> "trunk-snow", A |-> p.A_t2sn, k |-> p.k_tsn, d |-> p.d_tsn]}

\* C11: in every scenario returned by sample_parameters, for each contacting
\* pair (canopy-trunk, trunk-soil, trunk-snow) the conductance and the path
\* length are both exactly 0 whenever the pair's contact area is 0.
C11_ZeroAreaZeroContact ==
    par # Nothing =>
        \A c \in ContactPairs(par) : c.A = 0 => c.k = 0 /\ c.d = 0

\* a forested scenario without snow: the trunk-snow pair has no contact area
\* and no path length, and keeps the conductance 0.2 * k_ct
C11_Witness ==
    /\ par # Nothing
    /\ par.forest_type # "none"
    /\ par.A_snow = 0
    /\ par.A_t2sn = 0
    /\ par.d_tsn = 0
    /\ par.k_tsn > 0
    /\ par.k_tsn = MulDiv(2000, par.k_ct, 10000)

\* the part of C11 the code does keep: the path lengths follow the areas for
\* all three pairs, and the conductances for canopy-trunk and trunk-soil
C11_PathLengthsFollowAreas ==
    par # Nothing =>
        \A c \in ContactPairs(par) :
            c.A = 0 => c.d = 0 /\ (c.pair # "trunk-snow" => c.k = 0)

\* what one attempt of the loop does to the generator and hands to the solver,
\* started with the generator in state s
AttemptOf(season, forest_type, sp) ==
    [ok |-> sp.ok, p |-> sp.p] @@ build_guess(season, sp.p, sp.rng)
AttemptFrom(season, forest_type, s) ==
    AttemptOf(season, forest_type, sample_parameters(season, forest_type, s))

\* the number of draws (modulo the generator's period) that take it from
\* state s to state t
DrawsBetween(s, t) == CHOOSE n \in 0..7 : AdvN(s, n) = t

\* the draws one attempt consumes when the generator starts in state 0
DrawsPerAttempt(season, forest_type) ==
    DrawsBetween(0, AttemptFrom(season, forest_type, 0).rng)

\* where attempt number n of a call finds the generator, by seed and n alone
SliceStart(a, n) ==
    AdvN(seed_state(a.seed), n * DrawsPerAttempt(a.season, a.forest_type))

InAttempt == pc \in {"solve", "qc"}

\* C12: for a fixed seed, season and forest_type, the scenario and the initial
\* guess of attempt i depend only on the seed and on i, not on what earlier
\* attempts drew, what the solver returned for them or whether they were
\* kept: every attempt consumes the same number of draws, so attempt i finds
\* the generator at the start of its own slice of the stream.
C12_AttemptUsesOwnSlice ==
    (pc \in {"loop", "solve", "qc"} /\ args.seed # None /\ ForestKnown) =>
        /\ pc = "loop" => rng = SliceStart(args, i)
        /\ InAttempt =>
              /\ rng = SliceStart(args, i + 1)
              /\ par = AttemptFrom(args.season, args.forest_type, SliceStart(args, i)).p
              /\ guess = AttemptFrom(args.season, args.forest_type, SliceStart(args, i)).g

\* the second attempt of a winter call, under way after a first attempt that
\* was rejected, drew other values and was started from another state
C12_Witness ==
    /\ InAttempt
    /\ args.seed # None
    /\ args.season = "winter"
    /\ i = 1
    /\ Len(trace) = 1
    /\ ~trace[1].kept
    /\ trace[1].p.T_atm # par.T_atm
    /\ par.A_snow > 0
    /\ guess = AttemptFrom(args.season, args.forest_type, SliceStart(args, 1)).g

\* the position in the residual vector of a node of the breakdown
NodeIndex(node) ==
    CASE node = "canopy" -> 1 [] node = "trunk" -> 2 [] node = "snow" -> 3 [] OTHER -> 4

\* the states the two functions are compared at for the scenario in hand:
\* its guess, two fixed states with melting snow and two with the snow below
\* the melting point when the solver is called, the solver's answer when it
\* has returned
CompareStates ==
    CASE pc = "solve" -> {guess,
                          <<250000, 262000, 274000, 286000>>,
                          <<331000, 305000, 273150, 212000>>,
                          <<268000, 266000, 264000, 271000>>,
                          <<301000, 296000, 272900, 289000>>}
      [] pc = "qc" -> {res.x}
      [] OTHER -> {}

\* the decomposer's net of a node, brought to the residual's scale
ScaledNet(node, v, p) == Quot(compute_flux_components(v, p)[node].net, NDIM_FLUX)

\* C13: energy_balance and compute_flux_components agree: for every
\* temperature state and every scenario, and for each node whose section is
\* emitted, the decomposer's net equals NDIM_FLUX times that node's residual
\* (same terms, same signs, same zero-area gates).  Both sides are taken to
\* the residual's scale, where the division by NDIM_FLUX has been made.
C13_DecomposerMatchesResiduals ==
    InAttempt =>
        \A v \in CompareStates :
            \A node \in DOMAIN compute_flux_components(v, par) :
                ScaledNet(node, v, par) = residual(NodeIndex(node), v, par)

\* a forested winter scenario at its guess: all four sections are emitted,
\* the snow melts, and the residuals are far from zero
C13_Witness ==
    /\ par # Nothing
    /\ guess # Nothing
    /\ DOMAIN compute_flux_components(guess, par) = NodeNames
    /\ FC_melt_snow(guess, par) > 0
    /\ \A node \in NodeNames :
          /\ Abs(ScaledNet(node, guess, par)) > RES_TOL
          /\ ScaledNet(node, guess, par) = energy_balance(guess, par)[NodeIndex(node)]

\* the guess the driver would build for scenario p from generator state s
\* if it classified the season as the sampler did (p.season)
GuessAsSampled(p, s) == build_guess(p.season, p, s).g

\* the sampler, started in state s, produced sp, and the guess in hand is the
\* one that follows sp under the sampler's own classification of the season
FollowsSampler(sp) == sp.ok /\ sp.p = par /\ GuessAsSampled(sp.p, sp.rng) = guess

\* C14: for every season string passed to run_monte_carlo, differently-cased
\* spellings included, the driver builds the initial guess as for summer
\* (canopy offset from [1, 8], summer snow cap) exactly when the sampler
\* produced a summer scenario for that call.
C14_DriverFollowsSampler ==
    InAttempt =>
        /\ (args.season = "summer") <=> (par.season = "summer")
        /\ \E s \in 0..7 :
              FollowsSampler(sample_parameters(args.season, args.forest_type, s))

\* a call with season "Summer": the scenario is a summer one, and the canopy
\* guess lies less than 1 K above the air, below the whole summer range
C14_Witness ==
    /\ InAttempt
    /\ args.season = "Summer"
    /\ par.season = "summer"
    /\ par.T_atm >= 293000
    /\ guess[1] < par.T_atm + 1000

\* what the code does keep: the two classifications agree for every season
\* string that is already in lower case
C14_LowerCaseSeasonsAgree ==
    (InAttempt /\ args.season = lower(args.season)) =>
        /\ (args.season = "summer") <=> (par.season = "summer")
        /\ \E s \in 0..7 :
              FollowsSampler(sample_parameters(args.season, args.forest_type, s))

====
